---- MODULE Spec2Model ----
(***************************************************************************)
(* Heat-transfer simulation with one-dimensional texture memory            *)
(* (5.About_texture_memory/heat_transfer_simulation_with_texture_memory.cu)*)
(*                                                                         *)
(* The model follows the host code of animate_display kernel launch by     *)
(* kernel launch, and the two kernels maintain_heaters and                 *)
(* temperature_update thread by thread.  Device memory is a function from  *)
(* buffer names to grids; a texture reference is a variable holding the    *)
(* name of the buffer it is bound to.                                      *)
(*                                                                         *)
(* Temperatures are fixed-point integers in units of 0.00005, so that      *)
(* MAX_TEMPERATURE (1.0), MIN_TEMPERATURE (0.0001) and their mean are all  *)
(* represented exactly.  SPEED (0.2) is the fraction SpeedNum / SpeedDen;  *)
(* the product SPEED * gradient is rounded down to the unit, where the     *)
(* source rounds to the nearest float.  The numerator of SPEED is held in  *)
(* the variable speed, which no action changes: Spec starts with the       *)
(* source's value, SpecNoDiffusion with 0.                                  *)
(*                                                                         *)
(* The grid is scaled down: DIM is TilesPerSide tiles of TileDim threads   *)
(* (64 tiles of 16 threads in the source).                                 *)
(***************************************************************************)
EXTENDS Integers, FiniteSets, Sequences, TLC

VARIABLES
  mem,              \* device memory: buffer name -> grid (cell index -> temperature)
  texture_heaters,  \* buffer each texture reference is bound to
  texture_input,
  texture_output,
  device_bitmap,    \* the exported picture
  count_frames,     \* data->count_frames
  pc,               \* where the host is: "idle", "loop", "update", "exited"
  i,                \* loop counter of animate_display
  flag_IO,          \* volatile bool flag_IO
  input_ptr,        \* float *input_ptr, *output_ptr of the loop body
  output_ptr,
  speed,            \* numerator of SPEED, fixed at the start
  written,          \* history: the locations <<buffer, index>> written so far
  initial_input     \* history: what device_input held when main finished

vars == <<mem, texture_heaters, texture_input, texture_output, device_bitmap,
          count_frames, pc, i, flag_IO, input_ptr, output_ptr, speed, written, initial_input>>

(***************************************************************************)
(* Bounds of the model and constants of the program.                       *)
(***************************************************************************)
TileDim == 2
TilesPerSide == 2
MaxFrames == 2

DIM == TileDim * TilesPerSide
MAX_TEMPERATURE == 20000
MIN_TEMPERATURE == 2
SpeedNum == 1
\* mutant: SPEED is a third, more than a quarter
SpeedDen_third == 5 - 2
SpeedDen == 5
\* mutant: an odd number of sub-steps
TIME_STEPS_PER_FRAME_odd == 50 + 1
TIME_STEPS_PER_FRAME == 50

Cells == 0 .. (DIM * DIM - 1)
Buffers == {"device_heaters", "device_input", "device_output"}

(***************************************************************************)
(* Launch configuration and thread coordinates.                            *)
(***************************************************************************)
blocks_per_grid == DIM \div TileDim
threads_per_block == TileDim

Threads ==
  [blockIdx_x : 0 .. (blocks_per_grid - 1), blockIdx_y : 0 .. (blocks_per_grid - 1),
   threadIdx_x : 0 .. (threads_per_block - 1), threadIdx_y : 0 .. (threads_per_block - 1)]

thread_x(t) == t.threadIdx_x + t.blockIdx_x * threads_per_block
thread_y(t) == t.threadIdx_y + t.blockIdx_y * threads_per_block
\* mutant: the row stride is the width of one tile only
current_idx_nostride(t) == thread_x(t) + thread_y(t) * threads_per_block
current_idx(t) == thread_x(t) + thread_y(t) * threads_per_block * blocks_per_grid

\* mutant: no clamp at the left edge
left_idx_noclamp(t) == current_idx(t) - 1
left_idx(t) == IF thread_x(t) = 0 THEN (current_idx(t) - 1) + 1 ELSE current_idx(t) - 1
\* mutant: no clamp at the right edge
right_idx_wrap(t) == current_idx(t) + 1
right_idx(t) == IF thread_x(t) = DIM - 1 THEN (current_idx(t) + 1) - 1 ELSE current_idx(t) + 1
\* mutant: the top row reflects to the row below
upper_idx_reflect(t) == IF thread_y(t) = 0 THEN current_idx(t) + DIM ELSE current_idx(t) - DIM
upper_idx(t) == IF thread_y(t) = 0 THEN (current_idx(t) - DIM) + DIM ELSE current_idx(t) - DIM
\* mutant: the lower neighbour is taken from the row above
lower_idx_above(t) ==
  IF thread_y(t) = 0 THEN (current_idx(t) - DIM) + DIM ELSE current_idx(t) - DIM
\* mutant: no clamp at the bottom edge
lower_idx_noclamp(t) == current_idx(t) + DIM
lower_idx(t) == IF thread_y(t) = DIM - 1 THEN (current_idx(t) + DIM) - DIM ELSE current_idx(t) + DIM

(***************************************************************************)
(* Texture fetch: the value at idx of the buffer tex is bound to.  A fetch *)
(* outside the bound range, or through an unbound reference, yields 0.     *)
(***************************************************************************)
tex1Dfetch(m, tex, idx) ==
  IF tex \in Buffers /\ idx \in Cells THEN m[tex][idx] ELSE 0

(***************************************************************************)
(* The kernels, one thread at a time.  m is the memory the thread observes;*)
(* the result is the set of writes the thread makes through ptr.           *)
(***************************************************************************)
\* mutant: the test of heat_source is inverted
maintain_heaters_inverted(m, t, ptr) ==
  LET heat_source == tex1Dfetch(m, texture_heaters, current_idx(t))
  IN  IF heat_source = 0
        THEN {[idx |-> current_idx(t), val |-> heat_source]}
        ELSE {}

\* mutant: heat_source is stored without a test
maintain_heaters_unconditional(m, t, ptr) ==
  {[idx |-> current_idx(t), val |-> tex1Dfetch(m, texture_heaters, current_idx(t))]}

\* mutant: heat_source is added to what the cell holds
maintain_heaters_additive(m, t, ptr) ==
  LET heat_source == tex1Dfetch(m, texture_heaters, current_idx(t))
  IN  IF heat_source # 0
        THEN {[idx |-> current_idx(t), val |-> m[ptr][current_idx(t)] + heat_source]}
        ELSE {}
maintain_heaters(m, t, ptr) ==
  LET heat_source == tex1Dfetch(m, texture_heaters, current_idx(t))
  IN  IF heat_source # 0
        THEN {[idx |-> current_idx(t), val |-> heat_source]}
        ELSE {}

\* mutant: the two branches are exchanged
SelectTexture_swapped(flag) == IF flag THEN texture_output ELSE texture_input

\* the texture reference temperature_update fetches through
SelectTexture(flag) == IF flag THEN texture_input ELSE texture_output

\* mutant: the centre is subtracted three times, not four
gradient_miscount(m, t, flag) ==
  LET tex == SelectTexture(flag)
      current == tex1Dfetch(m, tex, current_idx(t))
      left == tex1Dfetch(m, tex, left_idx(t))
      right == tex1Dfetch(m, tex, right_idx(t))
      upper == tex1Dfetch(m, tex, upper_idx(t))
      lower == tex1Dfetch(m, tex, lower_idx(t))
  IN  left + right + upper + lower - 3 * current
\* float gradient = left + right + upper + lower - 4 * current
gradient(m, t, flag) ==
  LET tex == SelectTexture(flag)
      current == tex1Dfetch(m, tex, current_idx(t))
      left == tex1Dfetch(m, tex, left_idx(t))
      right == tex1Dfetch(m, tex, right_idx(t))
      upper == tex1Dfetch(m, tex, upper_idx(t))
      lower == tex1Dfetch(m, tex, lower_idx(t))
  IN  left + right + upper + lower - 4 * current

\* mutant: the cell's own value is left out of the sum
temperature_update_increment(m, t, ptr, flag) ==
  {[idx |-> current_idx(t), val |-> (speed * gradient(m, t, flag)) \div SpeedDen]}
temperature_update(m, t, ptr, flag) ==
  LET current == tex1Dfetch(m, SelectTexture(flag), current_idx(t))
  IN  {[idx |-> current_idx(t), val |-> current + (speed * gradient(m, t, flag)) \div SpeedDen]}

(***************************************************************************)
(* A kernel launch k = [kernel, ptr, flag] runs every thread of the grid.  *)
(* The threads of a launch are not ordered.  A launch is modelled by the   *)
(* family of schedules in which one thread, late, runs after all others    *)
(* have committed: every other thread observes the memory as it was when   *)
(* the kernel was launched, late observes what the others wrote.  Writes   *)
(* commit in the order of the threads' ranks, so of two writes of one      *)
(* batch to the same cell the one of higher rank stays.                    *)
(***************************************************************************)
ThreadRank(t) ==
  ((t.blockIdx_y * blocks_per_grid + t.blockIdx_x) * threads_per_block + t.threadIdx_y)
    * threads_per_block + t.threadIdx_x

\* the writes of thread t observing memory m, each tagged with the thread's rank
ThreadWrites(k, m, t) ==
  LET ws == IF k.kernel = "maintain_heaters"
              THEN maintain_heaters(m, t, k.ptr)
              ELSE temperature_update(m, t, k.ptr, k.flag)
  IN  {[by |-> ThreadRank(t), idx |-> w.idx, val |-> w.val] : w \in ws}

AllWrites(k, m) == UNION {ThreadWrites(k, m, t) : t \in Threads}

\* the locations <<buffer, index>> thread t fetches
ThreadReads(k, t) ==
  IF k.kernel = "maintain_heaters"
    THEN {<<texture_heaters, current_idx(t)>>}
    ELSE {<<SelectTexture(k.flag), idx>> :
            idx \in {current_idx(t), left_idx(t), right_idx(t), upper_idx(t), lower_idx(t)}}

\* grid after the writes ws have committed in rank order
Store(grid, ws) ==
  [c \in Cells |->
    LET hits == {w \in ws : w.idx = c}
    IN  IF hits = {} THEN grid[c]
        ELSE (CHOOSE w \in hits : \A o \in hits : o.by <= w.by).val]

\* grid after one thread's writes ws have committed
RECURSIVE Commit(_, _)
Commit(grid, ws) ==
  IF ws = {} THEN grid
  ELSE LET w == CHOOSE w \in ws : TRUE
       IN  Commit(IF w.idx \in Cells THEN [grid EXCEPT ![w.idx] = w.val] ELSE grid, ws \ {w})

\* the locations a launch of k writes
Written(k) == {<<k.ptr, w.idx>> : w \in AllWrites(k, mem)}

\* the memories a launch of k can leave
Launch(k) ==
  LET old == mem[k.ptr]
      all == AllWrites(k, mem)
      stored == Store(old, all)
      parallel == IF stored = old THEN old ELSE stored
      \* what the cells the thread late would write hold before late runs
      Early(late) ==
        Commit(parallel,
               {[idx |-> w.idx, val |-> Store(old, {o \in all : o.by # ThreadRank(late)})[w.idx]] :
                  w \in ThreadWrites(k, mem, late)})
      Late(late) ==
        Commit(Early(late), ThreadWrites(k, [mem EXCEPT ![k.ptr] = Early(late)], late))
  IN  {[mem EXCEPT ![k.ptr] = Late(late)] : late \in Threads}

(***************************************************************************)
(* Initial state: main has allocated the three buffers, bound the three    *)
(* textures and uploaded the heater map.  device_input and device_output   *)
(* come from cudaMalloc and are never initialised, so their first contents *)
(* are arbitrary; the heater map is a scaled-down analogue of the map main *)
(* builds (cells forced to MAX_TEMPERATURE, MIN_TEMPERATURE or their mean, *)
(* 0 elsewhere).                                                           *)
(***************************************************************************)
Uniform(v) == [c \in Cells |-> v]
Hot(k, v) == [c \in Cells |-> IF c = k THEN v ELSE 0]
Ramp == [c \in Cells |-> 5 * (c * c + 1)]
Last == DIM * DIM - 1
Inner == DIM + 1

HeaterMaps ==
  {Uniform(0), Hot(0, MAX_TEMPERATURE), Hot(Inner, MAX_TEMPERATURE), Hot(Last, MIN_TEMPERATURE),
   [c \in Cells |-> IF c = 0 THEN MIN_TEMPERATURE
                    ELSE IF c = Inner THEN (MIN_TEMPERATURE + MAX_TEMPERATURE) \div 2
                    ELSE IF c >= Last - 1 THEN MAX_TEMPERATURE ELSE 0]}

GarbageGrids ==
  {Uniform(0), Uniform(MAX_TEMPERATURE), Ramp, Hot(0, MAX_TEMPERATURE),
   Hot(Inner, MAX_TEMPERATURE), Hot(Last, 7)}

\* the state main leaves, with a heater map of hs and s as the numerator of SPEED
Start(hs, s) ==
  /\ \E h \in hs, a \in GarbageGrids, b \in {Uniform(0), Ramp} :
       /\ mem = [x \in Buffers |-> IF x = "device_heaters" THEN h
                                   ELSE IF x = "device_input" THEN a ELSE b]
       /\ initial_input = a
  /\ speed = s
  /\ written = {<<"device_heaters", c>> : c \in Cells}
  /\ texture_heaters = "device_heaters"
  /\ texture_input = "device_input"
  /\ texture_output = "device_output"
  /\ device_bitmap = Uniform(0)
  /\ count_frames = 0
  /\ pc = "idle"
  /\ i = 0
  /\ flag_IO = TRUE
  /\ input_ptr = "null"
  /\ output_ptr = "null"

Init == Start(HeaterMaps, SpeedNum)

(***************************************************************************)
(* animate_display, one step per kernel launch.                            *)
(***************************************************************************)
SelectInput(flag) == IF flag = TRUE THEN "device_input" ELSE "device_output"
\* mutant: the update is made in place
SelectOutput_inplace(flag) == SelectInput(flag)
SelectOutput(flag) == IF flag = TRUE THEN "device_output" ELSE "device_input"
\* mutant: the flag is not flipped
NextFlag_stuck(flag) == flag
NextFlag(flag) == ~flag
ExportPtr == "device_input"

\* the two launches of the loop body
HeaterKernel == [kernel |-> "maintain_heaters", ptr |-> SelectInput(flag_IO), flag |-> flag_IO]
\* mutant: temperature_update is given the input pointer
UpdateKernel_inplace == [kernel |-> "temperature_update", ptr |-> input_ptr, flag |-> flag_IO]
UpdateKernel == [kernel |-> "temperature_update", ptr |-> output_ptr, flag |-> flag_IO]

\* the harness calls animate_display: flag_IO = true, i = 0
BeginFrame ==
  /\ pc = "idle"
  /\ count_frames < MaxFrames
  /\ flag_IO' = TRUE
  /\ i' = 0
  /\ pc' = "loop"
  /\ UNCHANGED <<mem, texture_heaters, texture_input, texture_output, device_bitmap,
                 count_frames, input_ptr, output_ptr, speed, written, initial_input>>

\* loop body, first half: select the pointers, launch maintain_heaters(input_ptr)
HeaterStep ==
  /\ pc = "loop"
  /\ i < TIME_STEPS_PER_FRAME
  /\ input_ptr' = SelectInput(flag_IO)
  /\ output_ptr' = SelectOutput(flag_IO)
  /\ mem' \in Launch(HeaterKernel)
  /\ written' = written \cup Written(HeaterKernel)
  /\ pc' = "update"
  /\ UNCHANGED <<texture_heaters, texture_input, texture_output, device_bitmap,
                 count_frames, i, flag_IO, speed, initial_input>>

\* loop body, second half: launch temperature_update(output_ptr, flag_IO), flip the flag
UpdateStep ==
  /\ pc = "update"
  /\ mem' \in Launch(UpdateKernel)
  /\ written' = written \cup Written(UpdateKernel)
  /\ flag_IO' = NextFlag(flag_IO)
  /\ i' = i + 1
  /\ pc' = "loop"
  /\ UNCHANGED <<texture_heaters, texture_input, texture_output, device_bitmap,
                 count_frames, input_ptr, output_ptr, speed, initial_input>>

\* after the loop: float_to_color(device_input, device_bitmap), copy out, count the frame
float_to_color(grid) == [c \in Cells |-> grid[c]]

ExportStep ==
  /\ pc = "loop"
  /\ i >= TIME_STEPS_PER_FRAME
  /\ device_bitmap' = float_to_color(mem[ExportPtr])
  /\ count_frames' = count_frames + 1
  /\ pc' = "idle"
  /\ UNCHANGED <<mem, texture_heaters, texture_input, texture_output,
                 i, flag_IO, input_ptr, output_ptr, speed, written, initial_input>>

\* the harness calls animate_exit: textures unbound, buffers freed
animate_exit ==
  /\ pc = "idle"
  /\ texture_heaters' = "unbound"
  /\ texture_input' = "unbound"
  /\ texture_output' = "unbound"
  /\ pc' = "exited"
  /\ UNCHANGED <<mem, device_bitmap, count_frames, i, flag_IO, input_ptr, output_ptr,
                 speed, written, initial_input>>

Next == BeginFrame \/ HeaterStep \/ UpdateStep \/ ExportStep \/ animate_exit

Spec == Init /\ [][Next]_vars

\* the program built with SPEED 0 and a heater map without heaters
InitNoDiffusion == Start({Uniform(0)}, 0)
SpecNoDiffusion == InitNoDiffusion /\ [][Next]_vars

(***************************************************************************)
(* Vocabulary of the properties.                                           *)
(***************************************************************************)
Heaters == mem["device_heaters"]
Stamped(grid) == [c \in Cells |-> IF Heaters[c] # 0 THEN Heaters[c] ELSE grid[c]]
Diffuse(current, left, right, upper, lower) ==
  current + (speed * (left + right + upper + lower - 4 * current)) \div SpeedDen
ThreadAt(c) == CHOOSE t \in Threads : current_idx(t) = c
IsHeaterStep == pc = "loop" /\ pc' = "update"
IsUpdateStep == pc = "update" /\ pc' = "loop"
IsExportStep == pc = "loop" /\ pc' = "idle"

(***************************************************************************)
(* C1.  Every stencil update writes, at each cell (x, y) of the output     *)
(* buffer, current + SPEED * (left + right + upper + lower - 4 * current), *)
(* all five read from the input buffer, left being the cell at idx - 1     *)
(* except at x = 0, and right the cell at idx + 1 except at x = DIM - 1,   *)
(* where each is the cell itself: no wrap to the adjacent row.             *)
(***************************************************************************)
C1_Expected(g, c) ==
  LET x == c % DIM
      left == IF x = 0 THEN g[c] ELSE g[c - 1]
      right == IF x = DIM - 1 THEN g[c] ELSE g[c + 1]
  IN  Diffuse(g[c], left, right, g[upper_idx(ThreadAt(c))], g[lower_idx(ThreadAt(c))])

C1_StencilValue ==
  [][IsUpdateStep => \A c \in Cells : mem'[output_ptr][c] = C1_Expected(mem[input_ptr], c)]_vars

\* an update has run on a grid where a cell of the right edge differs from the first cell of
\* the next row, and a cell strictly inside a row has been written
C1_Witness ==
  /\ pc = "loop" /\ i >= 1
  /\ \E c \in Cells :
       /\ c % DIM = DIM - 1 /\ c + 1 \in Cells
       /\ mem[input_ptr][c + 1] # mem[input_ptr][c]
       /\ mem[output_ptr][c] = C1_Expected(mem[input_ptr], c)
  /\ \E c \in Cells :
       /\ c % DIM \notin {0, DIM - 1}
       /\ mem[input_ptr][c - 1] # mem[input_ptr][c]
       /\ mem[output_ptr][c] = C1_Expected(mem[input_ptr], c)

(***************************************************************************)
(* C2.  As stated: in the top row the upper neighbour read is the cell at  *)
(* idx + DIM, in the bottom row the lower neighbour read is the cell at    *)
(* idx - DIM.                                                              *)
(***************************************************************************)
C2_Reflected(g, c) ==
  LET y == c \div DIM
      upper == IF y = 0 THEN g[c + DIM] ELSE g[c - DIM]
      lower == IF y = DIM - 1 THEN g[c - DIM] ELSE g[c + DIM]
  IN  Diffuse(g[c], g[left_idx(ThreadAt(c))], g[right_idx(ThreadAt(c))], upper, lower)

C2_Original ==
  [][IsUpdateStep => \A c \in Cells : mem'[output_ptr][c] = C2_Reflected(mem[input_ptr], c)]_vars

(***************************************************************************)
(* C2, amended.  In the top row the upper neighbour read is the cell       *)
(* itself, and in the bottom row the lower neighbour read is the cell      *)
(* itself: all four boundaries clamp to the cell.                          *)
(***************************************************************************)
C2_Clamped(g, c) ==
  LET y == c \div DIM
      upper == IF y = 0 THEN g[c] ELSE g[c - DIM]
      lower == IF y = DIM - 1 THEN g[c] ELSE g[c + DIM]
  IN  Diffuse(g[c], g[left_idx(ThreadAt(c))], g[right_idx(ThreadAt(c))], upper, lower)

C2_VerticalClampToSelf ==
  [][IsUpdateStep => \A c \in Cells : mem'[output_ptr][c] = C2_Clamped(mem[input_ptr], c)]_vars

\* an update has run where clamping and reflecting give different values, in the top row
\* and in the bottom row
C2_Witness ==
  /\ pc = "loop" /\ i >= 1
  /\ \E c \in Cells :
       /\ c \div DIM = 0
       /\ mem[output_ptr][c] = C2_Clamped(mem[input_ptr], c)
       /\ mem[output_ptr][c] # C2_Reflected(mem[input_ptr], c)
  /\ \E c \in Cells :
       /\ c \div DIM = DIM - 1
       /\ mem[output_ptr][c] = C2_Clamped(mem[input_ptr], c)
       /\ mem[output_ptr][c] # C2_Reflected(mem[input_ptr], c)

(***************************************************************************)
(* C3.  When the stencil update of a sub-step is about to start, every     *)
(* cell with a nonzero heater value holds exactly that value in the buffer *)
(* the stencil reads, whatever it held before maintain_heaters ran.        *)
(***************************************************************************)
C3_HeatersStampedBeforeUpdate ==
  pc = "update" =>
    /\ SelectTexture(flag_IO) = input_ptr
    /\ \A c \in Cells : Heaters[c] # 0 => mem[input_ptr][c] = Heaters[c]

\* first sub-step on the ramp: the heater cell held the ramp's value, not the heater's
C3_Witness ==
  /\ pc = "update" /\ i = 0
  /\ \E c \in Cells :
       /\ Heaters[c] # 0 /\ Ramp[c] # Heaters[c] /\ mem[input_ptr][c] = Heaters[c]
       /\ \A d \in Cells : Heaters[d] = 0 => mem[input_ptr][d] = Ramp[d]

(***************************************************************************)
(* C4.  maintain_heaters changes nothing but the cells of its target       *)
(* buffer whose heater value is nonzero: cells with heater value 0 keep    *)
(* their value, the heater map and the other grid buffer are unchanged.    *)
(***************************************************************************)
C4_HeaterFrame ==
  [][IsHeaterStep =>
       /\ \A c \in Cells : Heaters[c] = 0 => mem'[input_ptr'][c] = mem[input_ptr'][c]
       /\ mem'["device_heaters"] = mem["device_heaters"]
       /\ mem'[output_ptr'] = mem[output_ptr']
       /\ \A b \in Buffers : \A c \in Cells :
            mem'[b][c] # mem[b][c] => b = input_ptr' /\ Heaters[c] # 0]_vars

\* maintain_heaters has run on a buffer with nonzero cells that are no heaters
C4_Witness ==
  /\ pc = "update"
  /\ \E c \in Cells : Heaters[c] # 0 /\ mem[input_ptr][c] = Heaters[c]
  /\ \E c \in Cells : Heaters[c] = 0 /\ mem[input_ptr][c] # 0

(***************************************************************************)
(* C5.  One temperature_update launch writes every cell of the output      *)
(* buffer and leaves the input buffer and the heater map unchanged, with   *)
(* either buffer as the input.                                             *)
(***************************************************************************)
C5_UpdateFrame ==
  [][IsUpdateStep =>
       /\ {w.idx : w \in AllWrites(UpdateKernel, mem)} = Cells
       /\ \A b \in Buffers : b # output_ptr => mem'[b] = mem[b]
       /\ mem'[input_ptr] = mem[input_ptr]
       /\ mem'["device_heaters"] = mem["device_heaters"]]_vars

\* an update with device_output as the input has changed device_input
C5_Witness ==
  /\ pc = "loop" /\ i >= 2 /\ input_ptr = "device_output" /\ output_ptr = "device_input"
  /\ mem[output_ptr] # mem[input_ptr]
  /\ \E c \in Cells : mem[input_ptr][c] # 0

(***************************************************************************)
(* C6.  The roles swap after every sub-step: after an even number of       *)
(* completed sub-steps of a frame device_input is the input, after an odd  *)
(* number it is the output; one buffer is the input and the other one the  *)
(* output at every instant.                                                *)
(***************************************************************************)
C6_RoleAlternation ==
  /\ pc \in {"loop", "update"} => flag_IO = (i % 2 = 0)
  /\ pc = "update" =>
       /\ input_ptr = (IF i % 2 = 0 THEN "device_input" ELSE "device_output")
       /\ output_ptr = (IF i % 2 = 0 THEN "device_output" ELSE "device_input")
       /\ {input_ptr, output_ptr} = {"device_input", "device_output"}

\* a sub-step after an odd number of completed sub-steps: device_input is the output
C6_Witness == pc = "update" /\ i = 3 /\ output_ptr = "device_input" /\ flag_IO = FALSE

(***************************************************************************)
(* C7.  After the TIME_STEPS_PER_FRAME sub-steps of a frame the buffer     *)
(* handed to the export step is the buffer the last stencil update of the  *)
(* frame wrote, and the export leaves both grid buffers unchanged.         *)
(***************************************************************************)
C7_ExportsLastWritten ==
  [][IsExportStep =>
       /\ i = TIME_STEPS_PER_FRAME
       /\ ExportPtr = output_ptr
       /\ mem' = mem]_vars

\* a frame has been exported from the buffer its last update wrote
C7_Witness ==
  /\ pc = "idle" /\ count_frames >= 1 /\ i = TIME_STEPS_PER_FRAME
  /\ output_ptr = ExportPtr
  /\ mem[output_ptr] # mem[input_ptr]
  /\ device_bitmap = float_to_color(mem[output_ptr])

(***************************************************************************)
(* C8.  In every sub-step the texture the stencil fetches through is bound *)
(* to the current input buffer, which is not the buffer being written; and *)
(* from the second sub-step of a frame on, the buffer the stencil reads is *)
(* the buffer the stencil of the sub-step before wrote, with the heaters   *)
(* stamped on it.                                                          *)
(***************************************************************************)
C8_PingPong ==
  [][/\ IsHeaterStep /\ i >= 1 =>
          /\ SelectTexture(flag_IO) = output_ptr
          /\ mem'[SelectTexture(flag_IO)] = Stamped(mem[output_ptr])
     /\ IsUpdateStep =>
          /\ SelectTexture(flag_IO) = input_ptr
          /\ SelectTexture(flag_IO) # output_ptr]_vars

\* a later sub-step reads, through texture_output, what the sub-step before wrote
C8_Witness ==
  /\ pc = "update" /\ i >= 1 /\ flag_IO = FALSE
  /\ SelectTexture(flag_IO) = "device_output"
  /\ mem["device_output"] # mem["device_input"]
  /\ \E c \in Cells : Heaters[c] # 0

(***************************************************************************)
(* C9.  Within one launch of maintain_heaters or of temperature_update no  *)
(* thread fetches a cell another thread of the launch writes; whatever the *)
(* order of the threads, the launch leaves the memory a sequential         *)
(* execution, one thread after the other, leaves.                          *)
(***************************************************************************)
ThreadOfRank(r) == CHOOSE t \in Threads : ThreadRank(t) = r

\* the threads of ranks lo .. hi one after the other, each seeing the writes of those before
RECURSIVE Sequential(_, _, _, _)
Sequential(k, m, lo, hi) ==
  IF lo > hi THEN m
  ELSE IF lo = hi
    THEN [m EXCEPT ![k.ptr] = Commit(@, ThreadWrites(k, m, ThreadOfRank(lo)))]
    ELSE LET mid == (lo + hi) \div 2
             half == Sequential(k, m, lo, mid)
         IN  IF half = m THEN Sequential(k, m, mid + 1, hi) ELSE Sequential(k, half, mid + 1, hi)

RaceFree(k) ==
  \A t \in Threads : \A r \in ThreadReads(k, t) :
    r[1] = k.ptr => \A w \in AllWrites(k, mem) : w.idx = r[2] => w.by = ThreadRank(t)

C9_RaceFreeLaunch ==
  [][/\ IsHeaterStep =>
          /\ RaceFree(HeaterKernel)
          /\ mem' = Sequential(HeaterKernel, mem, 0, Cardinality(Threads) - 1)
     /\ IsUpdateStep =>
          /\ RaceFree(UpdateKernel)
          /\ mem' = Sequential(UpdateKernel, mem, 0, Cardinality(Threads) - 1)]_vars

\* an update has run in which threads fetched cells that other threads own
C9_Witness ==
  /\ pc = "loop" /\ i >= 1
  /\ \E t, u \in Threads :
       /\ t # u
       /\ <<SelectTexture(~flag_IO), current_idx(u)>>
            \in ThreadReads([kernel |-> "temperature_update", ptr |-> output_ptr, flag |-> ~flag_IO], t)
  /\ mem[output_ptr] # mem[input_ptr]

(***************************************************************************)
(* C10.  A launch has TilesPerSide x TilesPerSide tiles of TileDim x       *)
(* TileDim threads, and current_idx maps the threads one to one onto the   *)
(* cells 0 .. DIM * DIM - 1: in a launch no two threads write the same     *)
(* cell, and a stencil update writes every cell exactly once.              *)
(***************************************************************************)
C10_ThreadCellBijection ==
  /\ pc = "update" =>
       /\ Cardinality(Threads) = DIM * DIM
       /\ \A t \in Threads : current_idx(t) \in Cells
       /\ \A c \in Cells : Cardinality({t \in Threads : current_idx(t) = c}) = 1
       /\ LET all == AllWrites(UpdateKernel, mem)
          IN  Cardinality(all) = Cardinality(Cells) /\ {w.idx : w \in all} = Cells
  /\ pc = "loop" /\ i < TIME_STEPS_PER_FRAME =>
       \A w, v \in AllWrites(HeaterKernel, mem) : w.idx = v.idx => w.by = v.by

\* a launch of several tiles of several threads has written every cell
C10_Witness ==
  /\ pc = "loop" /\ i = 1
  /\ blocks_per_grid > 1 /\ threads_per_block > 1
  /\ \A c \in Cells : mem[output_ptr][c] = C2_Clamped(mem[input_ptr], c)
  /\ \E c \in Cells : mem[output_ptr][c] # mem[input_ptr][c]

(***************************************************************************)
(* C11.  On a grid without heaters whose only nonzero cell is (0, 0),      *)
(* holding 1.0, one stencil sub-step with SPEED 0.2 writes 0.6 into cell   *)
(* (0, 0) of the output buffer: the left and the upper neighbour, which    *)
(* are outside the grid, are read as the cell itself, the right and the    *)
(* lower neighbour as 0.  (0.6 is three fifths of MAX_TEMPERATURE.)        *)
(***************************************************************************)
C11_CornerGrid ==
  /\ Heaters = Uniform(0)
  /\ speed = SpeedNum
  /\ mem[input_ptr] = Hot(0, MAX_TEMPERATURE)

C11_CornerCell ==
  [][IsUpdateStep /\ C11_CornerGrid =>
       LET t == ThreadAt(0)
           tex == SelectTexture(flag_IO)
       IN  /\ 5 * mem'[output_ptr][0] = 3 * MAX_TEMPERATURE
           /\ tex1Dfetch(mem, tex, left_idx(t)) = MAX_TEMPERATURE
           /\ tex1Dfetch(mem, tex, upper_idx(t)) = MAX_TEMPERATURE
           /\ tex1Dfetch(mem, tex, right_idx(t)) = 0
           /\ tex1Dfetch(mem, tex, lower_idx(t)) = 0]_vars

\* the first sub-step of a run has turned the 1.0 of the corner into 0.6
C11_Witness ==
  /\ pc = "loop" /\ i = 1 /\ count_frames = 0
  /\ Heaters = Uniform(0)
  /\ mem["device_input"] = Hot(0, MAX_TEMPERATURE)
  /\ 5 * mem["device_output"][0] = 3 * MAX_TEMPERATURE

(***************************************************************************)
(* C12.  A uniform field is a fixed point of the stencil: an interior cell *)
(* whose own value and four neighbour values in the input buffer are all   *)
(* equal is written with that value, and with no heaters a sub-step on a   *)
(* uniform input buffer leaves the same uniform field in the output buffer.*)
(***************************************************************************)
C12_Interior(c) ==
  /\ c % DIM # 0 /\ c % DIM # DIM - 1
  /\ c \div DIM # 0 /\ c \div DIM # DIM - 1

C12_UniformFixedPoint ==
  [][IsUpdateStep =>
       LET g == mem[input_ptr]
           out == mem'[output_ptr]
       IN  /\ \A c \in Cells :
                /\ C12_Interior(c)
                /\ g[c - 1] = g[c] /\ g[c + 1] = g[c]
                /\ g[c - DIM] = g[c] /\ g[c + DIM] = g[c]
                => out[c] = g[c]
           /\ Heaters = Uniform(0) /\ g = Uniform(g[0]) => out = g]_vars

\* a sub-step has copied a uniform field of 1.0 over a buffer that held
\* something else
C12_Witness ==
  /\ pc = "loop" /\ i = 1 /\ count_frames = 0
  /\ Heaters = Uniform(0)
  /\ \E c \in Cells : C12_Interior(c)
  /\ initial_input = Uniform(MAX_TEMPERATURE)
  /\ mem["device_input"] = Uniform(MAX_TEMPERATURE)
  /\ mem["device_output"] = Uniform(MAX_TEMPERATURE)

(***************************************************************************)
(* C13.  The heater overlay is idempotent: a launch of maintain_heaters on *)
(* a buffer that a launch of maintain_heaters has just stamped leaves the  *)
(* buffer as it is, in every reachable state: for every heater map, for    *)
(* both temperature buffers and for whatever they hold.                    *)
(***************************************************************************)
C13_Overlay(m, buf) ==
  Store(m[buf], AllWrites([kernel |-> "maintain_heaters", ptr |-> buf, flag |-> flag_IO], m))

C13_HeaterOverlayIdempotent ==
  /\ \A buf \in {"device_input", "device_output"} :
       LET once == C13_Overlay(mem, buf)
           twice == C13_Overlay([mem EXCEPT ![buf] = once], buf)
       IN  twice = once
  /\ pc = "update" => C13_Overlay(mem, input_ptr) = mem[input_ptr]

\* the first heater launch of a run has just changed the input buffer, and
\* the other buffer is one that a launch would change
C13_Witness ==
  /\ pc = "update" /\ i = 0 /\ count_frames = 0
  /\ \E c \in Cells :
       Heaters[c] # 0 /\ initial_input[c] # Heaters[c] /\ mem[input_ptr][c] = Heaters[c]
  /\ \E c \in Cells : Heaters[c] = 0 /\ mem[input_ptr][c] # 0
  /\ C13_Overlay(mem, "device_output") # mem["device_output"]

(***************************************************************************)
(* C14.  With a heater map that is zero everywhere and SPEED = 0, the 50   *)
(* sub-steps of a frame are a no-op: the buffer exported at the end of the *)
(* frame, device_input, holds exactly what the input buffer held at the    *)
(* start.                                                                  *)
(***************************************************************************)
C14_NoDiffusionNoOp ==
  speed = 0 /\ Heaters = Uniform(0) =>
    /\ pc = "loop" /\ i = TIME_STEPS_PER_FRAME => mem[ExportPtr] = initial_input
    /\ pc = "idle" => mem[ExportPtr] = initial_input

\* a frame of 50 sub-steps has run on a hot spot and has left it in both
\* buffers
C14_Witness ==
  /\ speed = 0 /\ Heaters = Uniform(0)
  /\ pc = "idle" /\ count_frames = 1 /\ i = TIME_STEPS_PER_FRAME
  /\ initial_input = Hot(Inner, MAX_TEMPERATURE)
  /\ mem[ExportPtr] = Hot(Inner, MAX_TEMPERATURE)
  /\ mem["device_output"] = Hot(Inner, MAX_TEMPERATURE)

(***************************************************************************)
(* C15.  Heat conservation of one stencil update, in exact arithmetic.     *)
(* The exact value of the cell c is (SpeedDen * g[c] + speed * gradient)   *)
(* / SpeedDen, of which the written value is the integer part.  The sum of *)
(* the exact outputs differs from the sum of the inputs by SPEED times the *)
(* sum, over the neighbours taken outside the grid, of the substituted     *)
(* value minus the cell's own value; when every such term is zero the      *)
(* total is unchanged, and so is the total of the written values when no   *)
(* cell is rounded.                                                        *)
(***************************************************************************)
RECURSIVE C15_Sum(_, _, _)
C15_Sum(f, lo, hi) ==
  IF lo > hi THEN 0
  ELSE IF lo = hi THEN f[lo]
  ELSE LET mid == (lo + hi) \div 2
       IN  C15_Sum(f, lo, mid) + C15_Sum(f, mid + 1, hi)

C15_Total(f) == C15_Sum(f, 0, DIM * DIM - 1)

\* the terms of cell c: one for each neighbour of c that is outside the grid
C15_BoundaryTerms(g, c) ==
  LET t == ThreadAt(c)
  IN  [d \in {"left", "right", "upper", "lower"} |->
        IF d = "left" THEN (IF c % DIM = 0 THEN g[left_idx(t)] - g[c] ELSE 0)
        ELSE IF d = "right" THEN (IF c % DIM = DIM - 1 THEN g[right_idx(t)] - g[c] ELSE 0)
        ELSE IF d = "upper" THEN (IF c \div DIM = 0 THEN g[upper_idx(t)] - g[c] ELSE 0)
        ELSE (IF c \div DIM = DIM - 1 THEN g[lower_idx(t)] - g[c] ELSE 0)]

C15_HeatConservation ==
  [][IsUpdateStep =>
       LET g == mem[input_ptr]
           out == mem'[output_ptr]
           G0 == [c \in Cells |-> gradient(mem, ThreadAt(c), flag_IO)]
           G == IF G0 = g THEN g ELSE G0
           B0 == [c \in Cells |->
                   LET terms == C15_BoundaryTerms(g, c)
                   IN  terms["left"] + terms["right"] + terms["upper"] + terms["lower"]]
           B == IF B0 = g THEN g ELSE B0
           exact0 == [c \in Cells |-> SpeedDen * g[c] + speed * G[c]]
           exact == IF exact0 = g THEN g ELSE exact0
           NoTerm == \A c \in Cells :
                       LET terms == C15_BoundaryTerms(g, c)
                       IN  \A d \in DOMAIN terms : terms[d] = 0
       IN  /\ \A c \in Cells :
                SpeedDen * out[c] <= exact[c] /\ exact[c] < SpeedDen * out[c] + SpeedDen
           /\ C15_Total(exact) = SpeedDen * C15_Total(g) + speed * C15_Total(B)
           /\ NoTerm => C15_Total(exact) = SpeedDen * C15_Total(g)
           /\ NoTerm /\ (\A c \in Cells : exact[c] = SpeedDen * out[c])
                => C15_Total(out) = C15_Total(g)]_vars

\* a sub-step has spread the heat of a corner without rounding and has kept
\* the total
C15_Witness ==
  /\ pc = "loop" /\ i = 1 /\ count_frames = 0
  /\ speed = SpeedNum
  /\ mem["device_input"] = Hot(0, MAX_TEMPERATURE)
  /\ mem["device_output"] # mem["device_input"]
  /\ mem["device_output"][1] > 0 /\ mem["device_output"][DIM] > 0
  /\ C15_Total(mem["device_output"]) = MAX_TEMPERATURE

(***************************************************************************)
(* The heater map of main, at the source's size.  main's loops are run on  *)
(* the cells whose column and row are both in SampledCoords, the columns   *)
(* and rows at which a rule of the map begins or ends and their            *)
(* neighbours; the conditions and the indices are the source's.            *)
(***************************************************************************)
DIM_source == 1024
SampledCoords ==
  <<0, 1, 99, 100, 101, 199, 200, 299, 300, 301, 310, 311, 399, 400, 401, 499, 500,
    599, 600, 601, 699, 700, 701, 799, 800, 801, 899, 900, DIM_source - 1>>
SampledSet == {SampledCoords[n] : n \in DOMAIN SampledCoords}
SampledCells == {x + y * DIM_source : x, y \in SampledSet}

\* the n-th sampled cell in the order of the loop for (i = 0; i < DIM * DIM; ++i)
SampledCell(n) ==
  SampledCoords[(n % Len(SampledCoords)) + 1]
    + SampledCoords[(n \div Len(SampledCoords)) + 1] * DIM_source

\* new float[...]: the array is not initialised
heaters_grid_new == [c \in SampledCells |-> 0 - 1 - (c % 3)]

\* one iteration of the loop of main, for i = idx
main_loop_body(heaters_grid, idx) ==
  LET x == idx % DIM_source
      y == idx \div DIM_source
      zeroed == [heaters_grid EXCEPT ![idx] = 0]
      heated == IF (x > 300) /\ (x < 600) /\ (y > 310) /\ (y < 601)
                  THEN [zeroed EXCEPT ![idx] = MAX_TEMPERATURE]
                  ELSE zeroed
      points == [heated EXCEPT
                   ![100 + 100 * DIM_source] = (MIN_TEMPERATURE + MAX_TEMPERATURE) \div 2,
                   ![100 + 700 * DIM_source] = MIN_TEMPERATURE,
                   ![300 + 300 * DIM_source] = MIN_TEMPERATURE,
                   ![700 + 200 * DIM_source] = MIN_TEMPERATURE]
      block == {j + k * DIM_source : j \in SampledSet \cap (400 .. 499),
                                     k \in SampledSet \cap (800 .. 899)}
  IN  [c \in SampledCells |-> IF c \in block THEN MIN_TEMPERATURE ELSE points[c]]

\* the iterations for the sampled cells lo .. hi, in the order of the loop
RECURSIVE main_loop(_, _, _)
main_loop(heaters_grid, lo, hi) ==
  IF lo = hi
    THEN LET after == main_loop_body(heaters_grid, SampledCell(lo))
         IN  IF after = heaters_grid THEN heaters_grid ELSE after
    ELSE LET mid == (lo + hi) \div 2
             half == main_loop(heaters_grid, lo, mid)
         IN  IF half = heaters_grid THEN main_loop(heaters_grid, mid + 1, hi)
             ELSE main_loop(half, mid + 1, hi)

\* heaters_grid when the first cudaMemcpy uploads it
main_first_upload ==
  main_loop(heaters_grid_new, 0, Len(SampledCoords) * Len(SampledCoords) - 1)

\* for (j = 800; j < DIM; ++j) for (i = 0; i < 200; ++i)
main_second_pass(heaters_grid) ==
  LET strip == {ii + j * DIM_source : ii \in SampledSet \cap (0 .. 199),
                                      j \in SampledSet \cap (800 .. DIM_source - 1)}
  IN  [c \in SampledCells |-> IF c \in strip THEN MAX_TEMPERATURE ELSE heaters_grid[c]]

\* mutant: the second cudaMemcpy is missing
main_device_heaters_once == main_first_upload
\* device_heaters after the two uploads: the second overwrites the first
main_device_heaters == main_second_pass(main_first_upload)

(***************************************************************************)
(* C16.  After main's loop, its second pass and the two uploads, the       *)
(* device heater map is MAX_TEMPERATURE for 300 < x < 600 and 310 < y <    *)
(* 601, the mean of MIN_TEMPERATURE and MAX_TEMPERATURE at (100, 100),     *)
(* MIN_TEMPERATURE at (100, 700), (300, 300) and (700, 200) and for 400 <= *)
(* x < 500 and 800 <= y < 900, MAX_TEMPERATURE for 0 <= x < 200 and 800 <= *)
(* y < DIM, and 0 elsewhere, a later rule winning over an earlier one; and *)
(* no step of the simulation changes the device heater map.                *)
(***************************************************************************)
C16_Described(x, y) ==
  IF 0 <= x /\ x < 200 /\ 800 <= y /\ y < DIM_source THEN MAX_TEMPERATURE
  ELSE IF 400 <= x /\ x < 500 /\ 800 <= y /\ y < 900 THEN MIN_TEMPERATURE
  ELSE IF <<x, y>> \in {<<100, 700>>, <<300, 300>>, <<700, 200>>} THEN MIN_TEMPERATURE
  ELSE IF <<x, y>> = <<100, 100>> THEN (MIN_TEMPERATURE + MAX_TEMPERATURE) \div 2
  ELSE IF 300 < x /\ x < 600 /\ 310 < y /\ y < 601 THEN MAX_TEMPERATURE
  ELSE 0

C16_MapAsDescribed ==
  \A x, y \in SampledSet : main_device_heaters[x + y * DIM_source] = C16_Described(x, y)

C16_HeaterMapConstruction ==
  [][C16_MapAsDescribed /\ mem'["device_heaters"] = mem["device_heaters"]]_vars

\* frames have run on a heater map with heaters, and the map of main has a
\* cell of every rule
C16_Witness ==
  /\ pc = "idle" /\ count_frames > 0
  /\ Heaters # Uniform(0)
  /\ main_device_heaters[301 + 311 * DIM_source] = MAX_TEMPERATURE
  /\ main_device_heaters[100 + 100 * DIM_source] = (MIN_TEMPERATURE + MAX_TEMPERATURE) \div 2
  /\ main_device_heaters[300 + 300 * DIM_source] = MIN_TEMPERATURE
  /\ main_device_heaters[499 + 899 * DIM_source] = MIN_TEMPERATURE
  /\ main_device_heaters[199 + 800 * DIM_source] = MAX_TEMPERATURE
  /\ main_device_heaters[200 + 800 * DIM_source] = 0
  /\ main_first_upload[199 + 800 * DIM_source] = 0

(***************************************************************************)
(* C17.  Index safety: for every thread of every launch of maintain_heaters*)
(* and of temperature_update, the thread's own index and its four          *)
(* neighbour indices are in 0 .. DIM * DIM - 1, at the corners and on the  *)
(* edges too; so is every index a launch fetches or stores at.             *)
(***************************************************************************)
C17_InRange(k) ==
  /\ \A t \in Threads : \A r \in ThreadReads(k, t) : r[2] \in Cells
  /\ \A w \in AllWrites(k, mem) : w.idx \in Cells

C17_IndexSafety ==
  /\ \A t \in Threads :
       {current_idx(t), left_idx(t), right_idx(t), upper_idx(t), lower_idx(t)} \subseteq Cells
  /\ pc = "loop" /\ i < TIME_STEPS_PER_FRAME => C17_InRange(HeaterKernel)
  /\ pc = "update" => C17_InRange(UpdateKernel)

\* both kernels have run, with the threads of the two opposite corners, whose
\* outer neighbours are the corner cells themselves
C17_Witness ==
  /\ pc = "loop" /\ i > 0
  /\ \A c \in Cells : <<"device_output", c>> \in written
  /\ \E t \in Threads :
       current_idx(t) = 0 /\ left_idx(t) = 0 /\ upper_idx(t) = 0
  /\ \E t \in Threads :
       current_idx(t) = Last /\ right_idx(t) = Last /\ lower_idx(t) = Last

(***************************************************************************)
(* C18.  Continuity across frames: flag_IO starts every frame as true, yet *)
(* the buffer the first sub-step of a frame stamps and reads is the buffer *)
(* the last stencil update of the frame before wrote; a frame is exactly   *)
(* TIME_STEPS_PER_FRAME sub-steps, and neither the export nor the start of *)
(* a frame changes a buffer, so no result is discarded or computed again.  *)
(***************************************************************************)
C18_CrossFrameContinuity ==
  [][/\ IsHeaterStep /\ (count_frames > 0 \/ i > 0) =>
          /\ input_ptr' = output_ptr
          /\ SelectTexture(flag_IO) = output_ptr
     /\ IsExportStep => i = TIME_STEPS_PER_FRAME /\ mem' = mem
     /\ pc = "idle" /\ pc' = "loop" => i' = 0 /\ flag_IO' = TRUE /\ mem' = mem
     /\ IsUpdateStep => i' = i + 1]_vars

\* the second frame has begun its first sub-step on the buffer the first
\* frame wrote last
C18_Witness ==
  /\ pc = "update" /\ i = 0 /\ count_frames = 1
  /\ flag_IO = TRUE
  /\ input_ptr = "device_input"
  /\ \A c \in Cells : <<"device_input", c>> \in written

(***************************************************************************)
(* C19.  Defined before read: every location a stencil update fetches has  *)
(* been written earlier in the run, by an upload of main, by a heater      *)
(* launch or by an earlier stencil update; in particular the first update  *)
(* of the first frame fetches no cell of the input buffer that was never   *)
(* written.  main allocates device_input and never stores into it, so the  *)
(* first update fetches every cell that is not a heater unwritten.         *)
(***************************************************************************)
C19_DefinedBeforeRead ==
  pc = "update" => \A t \in Threads : ThreadReads(UpdateKernel, t) \subseteq written

(***************************************************************************)
(* C20.  Discrete maximum principle, SPEED being 0.2, not more than 0.25.  *)
(* In exact arithmetic the value a stencil update writes at a cell is      *)
(* between the least and the greatest of the cell's own value and its four *)
(* clamped neighbour values in the input buffer, and so is the value       *)
(* written after rounding; hence at any time every temperature cell        *)
(* written so far holds a value within the range spanned by the values the *)
(* input buffer held at the start and the nonzero values of the heater     *)
(* map.                                                                    *)
(***************************************************************************)
C20_Least(S) == CHOOSE v \in S : \A w \in S : v <= w
C20_Greatest(S) == CHOOSE v \in S : \A w \in S : w <= v

\* the own value and the four clamped neighbour values of cell c in grid g
C20_Neighbourhood(g, c) ==
  LET x == c % DIM
      y == c \div DIM
  IN  {g[c],
       IF x = 0 THEN g[c] ELSE g[c - 1],
       IF x = DIM - 1 THEN g[c] ELSE g[c + 1],
       IF y = 0 THEN g[c] ELSE g[c - DIM],
       IF y = DIM - 1 THEN g[c] ELSE g[c + DIM]}

\* the values the run starts from
C20_Sources ==
  {initial_input[c] : c \in Cells} \cup {Heaters[c] : c \in {d \in Cells : Heaters[d] # 0}}

C20_WithinSources ==
  LET least == C20_Least(C20_Sources)
      greatest == C20_Greatest(C20_Sources)
  IN  \A loc \in written :
        loc[1] # "device_heaters" =>
          least <= mem[loc[1]][loc[2]] /\ mem[loc[1]][loc[2]] <= greatest

C20_MaximumPrinciple ==
  /\ [][IsUpdateStep =>
          LET g == mem[input_ptr]
              out == mem'[output_ptr]
          IN  \A t \in Threads :
                LET c == current_idx(t)
                    five == C20_Neighbourhood(g, c)
                    least == C20_Least(five)
                    greatest == C20_Greatest(five)
                    exact == SpeedDen * g[c] + speed * gradient(mem, t, flag_IO)
                IN  /\ SpeedDen * least <= exact /\ exact <= SpeedDen * greatest
                    /\ least <= out[c] /\ out[c] <= greatest]_vars
  /\ []C20_WithinSources

\* after a frame and more, on a run that began with a hot interior cell and a
\* cold heater, every cell has been written and the field is not uniform
C20_Witness ==
  /\ count_frames > 0 /\ pc = "loop" /\ i > 1
  /\ speed = SpeedNum
  /\ initial_input = Hot(Inner, MAX_TEMPERATURE)
  /\ Heaters = Hot(Last, MIN_TEMPERATURE)
  /\ \A c \in Cells : <<"device_input", c>> \in written /\ <<"device_output", c>> \in written
  /\ \E c, d \in Cells : mem["device_input"][c] # mem["device_input"][d]
  /\ \A c \in Cells : 0 <= mem["device_input"][c] /\ mem["device_input"][c] <= MAX_TEMPERATURE

====
